---- MODULE Spec2Model ----
(***************************************************************************)
(* A model of the ezWorker Executor: New (construction and population of  *)
(* the worker pool), Run (the dispatch goroutine and the goroutine it      *)
(* spawns per received message) and Teardown (the drain loop followed by   *)
(* the pool's own teardown).                                               *)
(*                                                                         *)
(* Thread 0 is the dispatch goroutine started by Run; threads 1..MaxExec  *)
(* are the goroutines spawned at part_002:94, numbered in spawn order.     *)
(* Workers are numbered 1..workerCount in the order Factory.Create made    *)
(* them.  Messages are numbered 1..MaxTasks in the order they were sent;   *)
(* ZeroMsg is the zero value a receive from a closed channel yields.       *)
(*                                                                         *)
(* Teardown is modelled where the code calls it: from the dispatch         *)
(* goroutine and from the deferred function of a spawned goroutine.  The   *)
(* pool is the external ezPool library and is modelled by its contract.    *)
(***************************************************************************)
EXTENDS Integers, Sequences, FiniteSets, TLC

\* Bounds of the model.
MaxWorkers == 2
MaxTasks == 2
MaxExec == 3

ZeroMsg == 0
NoWorker == 0
Loop == 0
Tasks == 1..MaxExec
Threads == {Loop} \cup Tasks

VARIABLES
  workerCount,      \* New's workerCount argument (the pool's capacity)
  inputChannel,     \* messages sent on inputChannel and not yet received
  inputClosed,      \* inputChannel has been closed by the caller
  submitted,        \* number of messages the caller has sent
  cancelled,        \* cancelContext.Done() is closed
  newPc,            \* position inside New
  newI,             \* New's loop counter i
  newErr,           \* the error New returned
  createCalls,      \* number of Factory.Create calls
  putCalls,         \* per worker, the number of Pool.Put calls made by New
  workerPool,       \* the workers available in the pool
  poolTorn,         \* Pool.Teardown has succeeded
  poolTeardownCalls,\* number of Pool.Teardown calls
  destroyCalls,     \* per worker, the number of Factory.Destroy calls
  pc,               \* position of each goroutine
  msg,              \* the message each goroutine holds
  w,                \* the worker each goroutine holds (wrkr / w)
  execErr,          \* per spawned goroutine: Execute returned an error
  tdI,              \* Teardown's loop counter i, per calling goroutine
  tdWrkr,           \* the worker Teardown took and is destroying
  tdErr,            \* the error Teardown returns, per calling goroutine
  tdAvail,          \* the pool's content when the dispatch goroutine entered Teardown
  tdPoolCalls,      \* per calling goroutine, the Pool.Teardown calls of its Teardown
  spawned,          \* number of goroutines spawned at part_002:94
  received,         \* the messages the dispatch goroutine received, in order
  errorChannel,     \* per error value, how often it was written to errorChannel
  outputChannel,    \* per goroutine, how often its output was written to outputChannel
  cancelInRun,      \* cancellation fired while the dispatch loop was running
  faulted,          \* a Factory or Pool call failed although its contract allowed success
  panicked          \* a goroutine panicked: the process is gone

vars == <<workerCount, inputChannel, inputClosed, submitted,
          cancelled, newPc, newI, newErr, createCalls, putCalls, workerPool, poolTorn,
          poolTeardownCalls, destroyCalls, pc, msg, w, execErr, tdI, tdWrkr, tdErr,
          tdAvail, tdPoolCalls, spawned, received, errorChannel, outputChannel, cancelInRun,
          faulted, panicked>>

envVars == <<workerCount>>
inVars == <<inputChannel, inputClosed, submitted>>
newVars == <<newPc, newI, newErr, createCalls, putCalls>>
poolVars == <<workerPool, poolTorn, poolTeardownCalls>>
thrVars == <<pc, msg, w, execErr>>
tdVars == <<tdI, tdWrkr, tdErr, tdAvail, tdPoolCalls>>
outVars == <<errorChannel, outputChannel>>
endVars == <<cancelInRun, faulted, panicked>>

Workers == 1..workerCount

\* The error values that travel on errorChannel.
CtxErr == 0
TaskErr(t) == t

----
\* The pool (github.com/pgvanniekerk/ezPool), by its contract.

\* Pool.Avail(): the number of workers that a Get would return without blocking.
Avail == Cardinality(workerPool)

\* Pool.Get() blocks while the pool is empty.
CanGet == workerPool # {}

\* Pool.Put(x) cannot succeed on a pool that already holds workerCount workers.
\* What a torn-down pool does with a Put is not defined by its contract: it may
\* accept or refuse.  A refusal in any other state is a failure of the pool itself.
PutHasRoom == Avail < workerCount
PutRefusalExpected == poolTorn \/ ~PutHasRoom

----
Init ==
  /\ workerCount \in 0..MaxWorkers
  /\ inputChannel = <<>>
  /\ inputClosed = FALSE
  /\ submitted = 0
  /\ cancelled = FALSE
  /\ newPc = "create"
  /\ newI = 0
  /\ newErr = "nil"
  /\ createCalls = 0
  /\ putCalls = [x \in 1..MaxWorkers + 1 |-> 0]
  /\ workerPool = {}
  /\ poolTorn = FALSE
  /\ poolTeardownCalls = 0
  /\ destroyCalls = [x \in 1..MaxWorkers + 1 |-> 0]
  /\ pc = [t \in Threads |-> "idle"]
  /\ msg = [t \in Threads |-> ZeroMsg]
  /\ w = [t \in Threads |-> NoWorker]
  /\ execErr = [t \in Tasks |-> FALSE]
  /\ tdI = [t \in Threads |-> 0]
  /\ tdWrkr = [t \in Threads |-> NoWorker]
  /\ tdErr = [t \in Threads |-> "nil"]
  /\ tdAvail = {}
  /\ tdPoolCalls = [t \in Threads |-> 0]
  /\ spawned = 0
  /\ received = <<>>
  /\ errorChannel = [v \in {CtxErr} \cup Tasks |-> 0]
  /\ outputChannel = [t \in Tasks |-> 0]
  /\ cancelInRun = FALSE
  /\ faulted = FALSE
  /\ panicked = FALSE

----
\* New: the population loop, for i := 0; i < int(workerCount); i++.

\* Mutant of NewCreate: a failed Create destroys the workers created so far.
NewCreateRollsBack ==
  /\ newPc = "create"
  /\ newI < workerCount
  /\ createCalls' = createCalls + 1
  /\ \/ /\ newPc' = "put"
        /\ UNCHANGED <<newErr, faulted, workerPool, destroyCalls>>
     \/ /\ newPc' = "failed"
        /\ newErr' = "create"
        /\ faulted' = TRUE
        /\ destroyCalls' = [x \in DOMAIN destroyCalls |->
                              IF x \in workerPool THEN destroyCalls[x] + 1
                              ELSE destroyCalls[x]]
        /\ workerPool' = {}
  /\ UNCHANGED <<envVars, inVars, cancelled, newI, putCalls, poolTorn,
                 poolTeardownCalls, thrVars, tdVars, spawned, received, outVars,
                 cancelInRun, panicked>>

\* Mutant of NewCreate: a failed Create is skipped (continue) instead of returned.
NewCreateSkipsError ==
  /\ newPc = "create"
  /\ newI < workerCount
  /\ createCalls' = createCalls + 1
  /\ \/ /\ newPc' = "put"
        /\ UNCHANGED <<newI, newErr, faulted>>
     \/ /\ newPc' = "create"
        /\ newI' = newI + 1
        /\ newErr' = "create"
        /\ faulted' = TRUE
  /\ UNCHANGED <<envVars, inVars, cancelled, putCalls, poolVars, destroyCalls,
                 thrVars, tdVars, spawned, received, outVars, cancelInRun, panicked>>

\* wrkr, err := e.workerFactory.Create(); if err != nil { return nil, err }
NewCreate ==
  /\ newPc = "create"
  /\ newI < workerCount
  /\ createCalls' = createCalls + 1
  /\ \/ /\ newPc' = "put"
        /\ UNCHANGED <<newErr, faulted>>
     \/ /\ newPc' = "failed"
        /\ newErr' = "create"
        /\ faulted' = TRUE
  /\ UNCHANGED <<envVars, inVars, cancelled, newI, putCalls, poolVars, destroyCalls,
                 thrVars, tdVars, spawned, received, outVars, cancelInRun, panicked>>

\* Mutant of NewPut: the created worker is never inserted into the pool.
NewPutDropsWorker ==
  /\ newPc = "put"
  /\ newI' = newI + 1
  /\ newPc' = "create"
  /\ UNCHANGED <<envVars, inVars, cancelled, newErr, createCalls, putCalls, poolVars,
                 destroyCalls, thrVars, tdVars, spawned, received, outVars, endVars>>

\* err = e.workerPool.Put(wrkr); if err != nil { return nil, err }; i++
NewPut ==
  /\ newPc = "put"
  /\ putCalls' = [putCalls EXCEPT ![createCalls] = @ + 1]
  /\ \/ /\ PutHasRoom
        /\ workerPool' = workerPool \cup {createCalls}
        /\ newI' = newI + 1
        /\ newPc' = "create"
        /\ UNCHANGED <<newErr, faulted>>
     \/ /\ newPc' = "failed"
        /\ newErr' = "put"
        /\ faulted' = (faulted \/ ~PutRefusalExpected)
        /\ UNCHANGED <<workerPool, newI>>
  /\ UNCHANGED <<envVars, inVars, cancelled, createCalls, poolTorn, poolTeardownCalls,
                 destroyCalls, thrVars, tdVars, spawned, received, outVars,
                 cancelInRun, panicked>>

\* The loop condition fails: return e, nil
NewReturn ==
  /\ newPc = "create"
  /\ newI >= workerCount
  /\ newPc' = "returned"
  /\ UNCHANGED <<envVars, inVars, cancelled, newI, newErr, createCalls, putCalls,
                 poolVars, destroyCalls, thrVars, tdVars, spawned, received, outVars,
                 endVars>>

----
\* The caller: the input channel and the cancellation context.

\* inputChannel <- next message
Submit ==
  /\ ~panicked
  /\ newPc = "returned"
  /\ ~inputClosed
  /\ submitted < MaxTasks
  /\ submitted' = submitted + 1
  /\ inputChannel' = Append(inputChannel, submitted + 1)
  /\ UNCHANGED <<envVars, inputClosed, cancelled, newVars, poolVars, destroyCalls,
                 thrVars, tdVars, spawned, received, outVars, endVars>>

\* close(inputChannel)
CloseInput ==
  /\ ~panicked
  /\ newPc = "returned"
  /\ ~inputClosed
  /\ inputClosed' = TRUE
  /\ UNCHANGED <<envVars, inputChannel, submitted, cancelled, newVars, poolVars,
                 destroyCalls, thrVars, tdVars, spawned, received, outVars, endVars>>

\* The dispatch loop is between Run and its Teardown.
LoopRunning == pc[Loop] \in {"select", "get"}

\* cancel(): cancelContext.Done() becomes readable
Cancel ==
  /\ ~panicked
  /\ newPc = "returned"
  /\ ~cancelled
  /\ cancelled' = TRUE
  /\ cancelInRun' = LoopRunning
  /\ UNCHANGED <<envVars, inVars, newVars, poolVars, destroyCalls, thrVars, tdVars,
                 spawned, received, outVars, faulted, panicked>>

----
\* Teardown, entered by goroutine t: i := uint32(0)
EnterTeardown(t) ==
  /\ tdI' = [tdI EXCEPT ![t] = 0]
  /\ tdErr' = [tdErr EXCEPT ![t] = "nil"]
  /\ tdAvail' = IF t = Loop THEN workerPool ELSE tdAvail
  /\ tdPoolCalls' = [tdPoolCalls EXCEPT ![t] = 0]
  /\ UNCHANGED tdWrkr

----
\* Run

\* go func(e) { for { select { ...
Run ==
  /\ ~panicked
  /\ newPc = "returned"
  /\ pc[Loop] = "idle"
  /\ pc' = [pc EXCEPT ![Loop] = "select"]
  /\ UNCHANGED <<envVars, inVars, cancelled, newVars, poolVars, destroyCalls, msg, w,
                 execErr, tdVars, spawned, received, outVars, endVars>>

\* case <-e.cancelContext.Done():
RunCancel ==
  /\ ~panicked
  /\ pc[Loop] = "select"
  /\ cancelled
  /\ pc' = [pc EXCEPT ![Loop] = "sendCtxErr"]
  /\ UNCHANGED <<envVars, inVars, cancelled, newVars, poolVars, destroyCalls, msg, w,
                 execErr, tdVars, spawned, received, outVars, endVars>>

\* Mutant of RunSendCtxErr: the cancellation error is sent from a goroutine of
\* its own, and the dispatch goroutine goes on to Teardown without waiting.
RunSendCtxErrAsync ==
  /\ ~panicked
  /\ pc[Loop] = "sendCtxErr"
  /\ pc' = [pc EXCEPT ![Loop] = "tdCheck"]
  /\ EnterTeardown(Loop)
  /\ UNCHANGED <<envVars, inVars, cancelled, newVars, poolVars, destroyCalls, msg, w,
                 execErr, spawned, received, outVars, endVars>>

\* e.errorChannel <- e.cancelContext.Err(); err := e.Teardown()
\* A send on errorChannel or outputChannel completes when the caller takes the
\* value: the step is the hand-over, and the goroutine waits before it.
RunSendCtxErr ==
  /\ ~panicked
  /\ pc[Loop] = "sendCtxErr"
  /\ errorChannel' = [errorChannel EXCEPT ![CtxErr] = @ + 1]
  /\ pc' = [pc EXCEPT ![Loop] = "tdCheck"]
  /\ EnterTeardown(Loop)
  /\ UNCHANGED <<envVars, inVars, cancelled, newVars, poolVars, destroyCalls, msg, w,
                 execErr, spawned, received, outputChannel, endVars>>

\* msg, closed := <-e.inputChannel: the second value of a receive is true when a
\* value was delivered and false when the channel is closed and drained.
closed(ok) == ok

\* Mutant of RunReceive: a message is read and the loop goes back to its select
\* before a worker has been borrowed for it.
RunReceiveReadsAhead ==
  /\ ~panicked
  /\ pc[Loop] = "select"
  /\ \E ok \in BOOLEAN :
       /\ IF ok THEN inputChannel # <<>> ELSE inputChannel = <<>> /\ inputClosed
       /\ LET m == IF ok THEN Head(inputChannel) ELSE ZeroMsg IN
            /\ inputChannel' = IF ok THEN Tail(inputChannel) ELSE inputChannel
            /\ received' = Append(received, m)
            /\ IF closed(ok)
                 THEN /\ pc' = [pc EXCEPT ![Loop] = "tdCheck"]
                      /\ EnterTeardown(Loop)
                      /\ UNCHANGED msg
                 ELSE /\ Len(received) < MaxExec
                      /\ pc' = [pc EXCEPT ![Loop] = "select"]
                      /\ msg' = [msg EXCEPT ![Loop] = m]
                      /\ UNCHANGED tdVars
  /\ UNCHANGED <<envVars, inputClosed, submitted, cancelled, newVars, poolVars,
                 destroyCalls, w, execErr, spawned, outVars, endVars>>

\* case msg, closed := <-e.inputChannel: if closed { err := e.Teardown() ... }
RunReceive ==
  /\ ~panicked
  /\ pc[Loop] = "select"
  /\ \E ok \in BOOLEAN :
       /\ IF ok THEN inputChannel # <<>> ELSE inputChannel = <<>> /\ inputClosed
       /\ LET m == IF ok THEN Head(inputChannel) ELSE ZeroMsg IN
            /\ inputChannel' = IF ok THEN Tail(inputChannel) ELSE inputChannel
            /\ received' = Append(received, m)
            /\ IF closed(ok)
                 THEN /\ pc' = [pc EXCEPT ![Loop] = "tdCheck"]
                      /\ EnterTeardown(Loop)
                      /\ UNCHANGED msg
                 ELSE /\ spawned < MaxExec
                      /\ pc' = [pc EXCEPT ![Loop] = "get"]
                      /\ msg' = [msg EXCEPT ![Loop] = m]
                      /\ UNCHANGED tdVars
  /\ UNCHANGED <<envVars, inputClosed, submitted, cancelled, newVars, poolVars,
                 destroyCalls, w, execErr, spawned, outVars, endVars>>

\* Mutant of RunGet: the worker is put back by the dispatch loop as soon as the
\* goroutine is spawned, not by the goroutine when it is finished.
RunGetPutsBack ==
  /\ ~panicked
  /\ pc[Loop] = "get"
  /\ CanGet
  /\ \E x \in workerPool : w' = [w EXCEPT ![spawned + 1] = x]
  /\ spawned' = spawned + 1
  /\ msg' = [msg EXCEPT ![spawned + 1] = msg[Loop]]
  /\ pc' = [pc EXCEPT ![Loop] = "select", ![spawned + 1] = "exec"]
  /\ UNCHANGED <<envVars, inVars, cancelled, newVars, poolVars, destroyCalls, execErr,
                 tdVars, received, outVars, endVars>>

\* Mutant of RunGet: the pool is not waited for; with no worker available the
\* goroutine is spawned with a worker that is still borrowed.
RunGetNoWait ==
  /\ ~panicked
  /\ pc[Loop] = "get"
  /\ \E x \in Workers :
       /\ workerPool' = workerPool \ {x}
       /\ w' = [w EXCEPT ![spawned + 1] = x]
  /\ spawned' = spawned + 1
  /\ msg' = [msg EXCEPT ![spawned + 1] = msg[Loop]]
  /\ pc' = [pc EXCEPT ![Loop] = "select", ![spawned + 1] = "exec"]
  /\ UNCHANGED <<envVars, inVars, cancelled, newVars, poolTorn, poolTeardownCalls,
                 destroyCalls, execErr, tdVars, received, outVars, endVars>>

\* wrkr := e.workerPool.Get(); go func(msg, w, e) { ... }(msg, wrkr, e)
RunGet ==
  /\ ~panicked
  /\ pc[Loop] = "get"
  /\ CanGet
  /\ \E x \in workerPool :
       /\ workerPool' = workerPool \ {x}
       /\ w' = [w EXCEPT ![spawned + 1] = x]
  /\ spawned' = spawned + 1
  /\ msg' = [msg EXCEPT ![spawned + 1] = msg[Loop]]
  /\ pc' = [pc EXCEPT ![Loop] = "select", ![spawned + 1] = "exec"]
  /\ UNCHANGED <<envVars, inVars, cancelled, newVars, poolTorn, poolTeardownCalls,
                 destroyCalls, execErr, tdVars, received, outVars, endVars>>

\* output, err := w.Execute(e.cancelContext, msg) returns
TaskExecute(t) ==
  /\ ~panicked
  /\ pc[t] = "exec"
  /\ \E failed \in BOOLEAN :
       /\ execErr' = [execErr EXCEPT ![t] = failed]
       /\ pc' = [pc EXCEPT ![t] = IF failed THEN "sendErr" ELSE "sendOut"]
  /\ UNCHANGED <<envVars, inVars, cancelled, newVars, poolVars, destroyCalls, msg, w,
                 tdVars, spawned, received, outVars, endVars>>

\* Mutant of TaskSendError: the error of Execute is treated as fatal: panic(err).
TaskSendErrorFatal(t) ==
  /\ ~panicked
  /\ pc[t] = "sendErr"
  /\ panicked' = TRUE
  /\ pc' = [pc EXCEPT ![t] = "panic"]
  /\ UNCHANGED <<envVars, inVars, cancelled, newVars, poolVars, destroyCalls, msg, w,
                 execErr, tdVars, spawned, received, outVars, cancelInRun, faulted>>

\* Mutant of TaskSendError: the return on the error path skips the Put (no defer).
TaskSendErrorNoPut(t) ==
  /\ ~panicked
  /\ pc[t] = "sendErr"
  /\ errorChannel' = [errorChannel EXCEPT ![TaskErr(t)] = @ + 1]
  /\ pc' = [pc EXCEPT ![t] = "done"]
  /\ w' = [w EXCEPT ![t] = NoWorker]
  /\ UNCHANGED <<envVars, inVars, cancelled, newVars, poolVars, destroyCalls, msg,
                 execErr, tdVars, spawned, received, outputChannel, endVars>>

\* if err != nil { e.errorChannel <- err; return }
TaskSendError(t) ==
  /\ ~panicked
  /\ pc[t] = "sendErr"
  /\ errorChannel' = [errorChannel EXCEPT ![TaskErr(t)] = @ + 1]
  /\ pc' = [pc EXCEPT ![t] = "put"]
  /\ UNCHANGED <<envVars, inVars, cancelled, newVars, poolVars, destroyCalls, msg, w,
                 execErr, tdVars, spawned, received, outputChannel, endVars>>

\* e.outputChannel <- output
TaskSendOutput(t) ==
  /\ ~panicked
  /\ pc[t] = "sendOut"
  /\ outputChannel' = [outputChannel EXCEPT ![t] = @ + 1]
  /\ pc' = [pc EXCEPT ![t] = "put"]
  /\ UNCHANGED <<envVars, inVars, cancelled, newVars, poolVars, destroyCalls, msg, w,
                 execErr, tdVars, spawned, received, errorChannel, endVars>>

\* defer func() { err := e.workerPool.Put(w); if err != nil { putErr := e.Teardown() ...
\* The refusals modelled here are those the pool's state explains (torn down, or
\* full); the pool's own failures are modelled in New and in Teardown, where the
\* code hands them to its caller.
TaskPut(t) ==
  /\ ~panicked
  /\ pc[t] = "put"
  /\ \/ /\ PutHasRoom
        /\ workerPool' = workerPool \cup {w[t]}
        /\ w' = [w EXCEPT ![t] = NoWorker]
        /\ pc' = [pc EXCEPT ![t] = "done"]
        /\ UNCHANGED tdVars
     \/ /\ PutRefusalExpected
        /\ pc' = [pc EXCEPT ![t] = "tdCheck"]
        /\ EnterTeardown(t)
        /\ UNCHANGED <<workerPool, w>>
  /\ UNCHANGED <<envVars, inVars, cancelled, newVars, poolTorn, poolTeardownCalls,
                 destroyCalls, msg, execErr, spawned, received, outVars, endVars>>

----
\* Teardown, as run by goroutine t.

\* Mutant of TeardownCheck: the loop condition is i <= Avail().
TeardownCheckOffByOne(t) ==
  /\ ~panicked
  /\ pc[t] = "tdCheck"
  /\ pc' = [pc EXCEPT ![t] = IF tdI[t] <= Avail THEN "tdGet" ELSE "tdPool"]
  /\ UNCHANGED <<envVars, inVars, cancelled, newVars, poolVars, destroyCalls, msg, w,
                 execErr, tdVars, spawned, received, outVars, endVars>>

\* for ...; i < e.workerPool.Avail(); ...
TeardownCheck(t) ==
  /\ ~panicked
  /\ pc[t] = "tdCheck"
  /\ pc' = [pc EXCEPT ![t] = IF tdI[t] < Avail THEN "tdGet" ELSE "tdPool"]
  /\ UNCHANGED <<envVars, inVars, cancelled, newVars, poolVars, destroyCalls, msg, w,
                 execErr, tdVars, spawned, received, outVars, endVars>>

\* wrkr := e.workerPool.Get()
TeardownGet(t) ==
  /\ ~panicked
  /\ pc[t] = "tdGet"
  /\ CanGet
  /\ \E x \in workerPool :
       /\ workerPool' = workerPool \ {x}
       /\ tdWrkr' = [tdWrkr EXCEPT ![t] = x]
  /\ pc' = [pc EXCEPT ![t] = "tdDestroy"]
  /\ UNCHANGED <<envVars, inVars, cancelled, newVars, poolTorn, poolTeardownCalls,
                 destroyCalls, msg, w, execErr, tdI, tdErr, tdAvail, tdPoolCalls,
                 spawned, received, outVars, endVars>>

\* Mutant of TeardownDestroy: a failed Destroy is noted and the loop goes on.
TeardownDestroyContinues(t) ==
  /\ ~panicked
  /\ pc[t] = "tdDestroy"
  /\ destroyCalls' = [destroyCalls EXCEPT ![tdWrkr[t]] = @ + 1]
  /\ tdWrkr' = [tdWrkr EXCEPT ![t] = NoWorker]
  /\ tdI' = [tdI EXCEPT ![t] = @ + 1]
  /\ pc' = [pc EXCEPT ![t] = "tdCheck"]
  /\ \/ UNCHANGED <<tdErr, faulted>>
     \/ /\ tdErr' = [tdErr EXCEPT ![t] = "destroy"]
        /\ faulted' = TRUE
  /\ UNCHANGED <<envVars, inVars, cancelled, newVars, poolVars, msg, w, execErr,
                 tdAvail, tdPoolCalls, spawned, received, outVars, cancelInRun,
                 panicked>>

\* err := e.workerFactory.Destroy(wrkr); if err != nil { return ... }; i++
TeardownDestroy(t) ==
  /\ ~panicked
  /\ pc[t] = "tdDestroy"
  /\ destroyCalls' = [destroyCalls EXCEPT ![tdWrkr[t]] = @ + 1]
  /\ tdWrkr' = [tdWrkr EXCEPT ![t] = NoWorker]
  /\ \/ /\ tdI' = [tdI EXCEPT ![t] = @ + 1]
        /\ pc' = [pc EXCEPT ![t] = "tdCheck"]
        /\ UNCHANGED <<tdErr, faulted>>
     \/ /\ tdErr' = [tdErr EXCEPT ![t] = "destroy"]
        /\ pc' = [pc EXCEPT ![t] = "tdRet"]
        /\ faulted' = TRUE
        /\ UNCHANGED tdI
  /\ UNCHANGED <<envVars, inVars, cancelled, newVars, poolVars, msg, w, execErr,
                 tdAvail, tdPoolCalls, spawned, received, outVars, cancelInRun,
                 panicked>>

\* err := e.workerPool.Teardown(); if err != nil { return ... }; return nil
\* What a second Teardown of the pool returns is not defined by its contract.
TeardownPool(t) ==
  /\ ~panicked
  /\ pc[t] = "tdPool"
  /\ poolTeardownCalls' = poolTeardownCalls + 1
  /\ tdPoolCalls' = [tdPoolCalls EXCEPT ![t] = @ + 1]
  /\ \/ /\ poolTorn' = TRUE
        /\ UNCHANGED <<tdErr, faulted>>
     \/ /\ tdErr' = [tdErr EXCEPT ![t] = "pool"]
        /\ faulted' = (faulted \/ ~poolTorn)
        /\ UNCHANGED poolTorn
  /\ pc' = [pc EXCEPT ![t] = "tdRet"]
  /\ UNCHANGED <<envVars, inVars, cancelled, newVars, workerPool, destroyCalls, msg, w,
                 execErr, tdI, tdWrkr, tdAvail, spawned, received, outVars,
                 cancelInRun, panicked>>

\* Mutant of RunAfterTeardown: the return after a successful Teardown is missing,
\* so the for loop goes round again.
RunAfterTeardownLoops ==
  /\ ~panicked
  /\ pc[Loop] = "tdRet"
  /\ IF tdErr[Loop] # "nil"
       THEN panicked' = TRUE /\ pc' = [pc EXCEPT ![Loop] = "panic"]
       ELSE pc' = [pc EXCEPT ![Loop] = "select"] /\ UNCHANGED panicked
  /\ UNCHANGED <<envVars, inVars, cancelled, newVars, poolVars, destroyCalls, msg, w,
                 execErr, tdVars, spawned, received, outVars, cancelInRun, faulted>>

\* Teardown returns to the dispatch goroutine:
\* if err != nil { panic(...) }; return
RunAfterTeardown ==
  /\ ~panicked
  /\ pc[Loop] = "tdRet"
  /\ IF tdErr[Loop] # "nil"
       THEN panicked' = TRUE /\ pc' = [pc EXCEPT ![Loop] = "panic"]
       ELSE pc' = [pc EXCEPT ![Loop] = "done"] /\ UNCHANGED panicked
  /\ UNCHANGED <<envVars, inVars, cancelled, newVars, poolVars, destroyCalls, msg, w,
                 execErr, tdVars, spawned, received, outVars, cancelInRun, faulted>>

\* Teardown returns to the deferred function of a spawned goroutine:
\* if putErr != nil { panic(...) }; panic(...)
TaskAfterTeardown(t) ==
  /\ ~panicked
  /\ pc[t] = "tdRet"
  /\ panicked' = TRUE
  /\ pc' = [pc EXCEPT ![t] = "panic"]
  /\ UNCHANGED <<envVars, inVars, cancelled, newVars, poolVars, destroyCalls, msg, w,
                 execErr, tdVars, spawned, received, outVars, cancelInRun, faulted>>

----
Next ==
  \/ NewCreate
  \/ NewPut
  \/ NewReturn
  \/ Submit
  \/ CloseInput
  \/ Cancel
  \/ Run
  \/ RunCancel
  \/ RunSendCtxErr
  \/ RunReceive
  \/ RunGet
  \/ \E t \in Tasks : TaskExecute(t)
  \/ \E t \in Tasks : TaskSendError(t)
  \/ \E t \in Tasks : TaskSendOutput(t)
  \/ \E t \in Tasks : TaskPut(t)
  \/ \E t \in Threads : TeardownCheck(t)
  \/ \E t \in Threads : TeardownGet(t)
  \/ \E t \in Threads : TeardownDestroy(t)
  \/ \E t \in Threads : TeardownPool(t)
  \/ RunAfterTeardown
  \/ \E t \in Tasks : TaskAfterTeardown(t)

Spec == Init /\ [][Next]_vars

----
\* Vocabulary of the properties.

\* Goroutine t was spawned and has not yet handed its worker back.
InFlight(t) == pc[t] \in {"exec", "sendErr", "sendOut", "put"}

\* Goroutine t is inside Worker.Execute.
Executing(t) == pc[t] = "exec"

\* The goroutines that were spawned.
Spawned == {t \in Tasks : pc[t] # "idle"}

\* The goroutines whose deferred Put has handed the worker back.
Returned == {t \in Tasks : pc[t] = "done"}

\* The goroutines that hold a worker taken at part_002:90 and not handed back.
Borrowers == {t \in Tasks : pc[t] \notin {"idle", "done"}}

\* The workers Teardown has taken out of the pool: destroyed, or about to be.
Drained == {x \in Workers : destroyCalls[x] > 0 \/ \E t \in Threads : tdWrkr[t] = x}

\* The number of Worker.Execute calls made with message m.
ExecuteCalls(m) == Cardinality({t \in Spawned : msg[t] = m})

\* The number of writes to either stream made for goroutine t.
Writes(t) == errorChannel[TaskErr(t)] + outputChannel[t]

\* The dispatch goroutine is inside Teardown, or past it.
LoopInTeardown == pc[Loop] \in {"tdCheck", "tdGet", "tdDestroy", "tdPool", "tdRet"}
LoopEnded == pc[Loop] \in {"done", "panic"}

----
\* C1: when the dispatch loop has returned without cancellation, every message
\* that was sent on the input stream has been passed to exactly one
\* Worker.Execute call, and no message has more than one result.
C1_EveryTaskExecutedOnce ==
  (pc[Loop] = "done" /\ ~cancelled /\ workerCount >= 1) =>
    \A m \in 1..submitted :
      /\ ExecuteCalls(m) = 1
      /\ \A t \in Spawned : msg[t] = m => Writes(t) <= 1

\* C2, as stated: once the Executor is constructed, the workers borrowed by
\* in-flight executions plus the workers available in the pool number workerCount.
C2_BorrowedPlusAvailable ==
  newPc = "returned" => Cardinality(Borrowers) + Avail = workerCount

\* C2, amended: until Pool.Teardown is called, the workers borrowed by in-flight
\* executions, the workers available in the pool and the workers Teardown's drain
\* loop has taken out of the pool together number workerCount.
C2_BorrowedAvailableDrained ==
  (newPc = "returned" /\ poolTeardownCalls = 0) =>
    Cardinality(Borrowers) + Avail + Cardinality(Drained) = workerCount

\* C2 witness: Teardown holds a worker it took out of the pool while an
\* execution is in flight with another.
C2_Witness ==
  /\ poolTeardownCalls = 0
  /\ pc[Loop] = "tdDestroy"
  /\ \E t \in Tasks : InFlight(t)

\* C3: no worker is held by two in-flight executions, and a worker held by an
\* in-flight execution is not available in the pool.
C3_WorkerHeldByOne ==
  /\ \A t1, t2 \in Tasks :
       (t1 # t2 /\ InFlight(t1) /\ InFlight(t2)) => w[t1] # w[t2]
  /\ \A t \in Tasks : InFlight(t) => (w[t] \in Workers /\ w[t] \notin workerPool)

\* C3 witness: two executions are inside Worker.Execute at once.
C3_Witness ==
  \E t1, t2 \in Tasks : t1 # t2 /\ Executing(t1) /\ Executing(t2)

\* C4: at most workerCount executions are inside Worker.Execute, and the number of
\* executions started exceeds workerCount by at most the number of workers that
\* executions have put back.
C4_AtMostCapacityExecuting ==
  /\ Cardinality({t \in Tasks : Executing(t)}) <= workerCount
  /\ spawned <= workerCount + Cardinality(Returned)

\* C4 witness: capacity 2 and a third execution has started while two are inside
\* Worker.Execute.
C4_Witness ==
  /\ workerCount = 2
  /\ spawned = 3
  /\ Cardinality({t \in Tasks : Executing(t)}) = 2

\* C5, as stated: when cancellation fired while the dispatch loop was running and
\* the loop has returned, the cancellation error was written exactly once.
C5_CancelErrorExactlyOnce ==
  (cancelInRun /\ pc[Loop] = "done" /\ workerCount >= 1) => errorChannel[CtxErr] = 1

\* The dispatch goroutine has seen the input stream closed.
CloseObserved == \E i \in 1..Len(received) : received[i] = ZeroMsg

\* C6, as stated: once the dispatch loop has seen the input stream closed, without
\* cancellation, it is in Teardown or has returned, nothing was written to the
\* error stream and no Worker.Execute was started for the close.
C6_CloseTearsDown ==
  (CloseObserved /\ ~cancelled /\ workerCount >= 1) =>
    /\ LoopInTeardown \/ LoopEnded
    /\ ExecuteCalls(ZeroMsg) = 0
    /\ \A v \in DOMAIN errorChannel : errorChannel[v] = 0

\* C7, as stated: for an execution whose Worker.Execute returned an error, once
\* the error is sent it was written once to the error stream and nothing to the
\* output stream, and once the deferred Put has run the worker is back in the pool.
C7_ErrorThenWorkerReturned ==
  \A t \in Tasks :
    /\ (execErr[t] /\ pc[t] # "sendErr") =>
         (errorChannel[TaskErr(t)] = 1 /\ outputChannel[t] = 0)
    /\ (execErr[t] /\ pc[t] \notin {"sendErr", "put"}) => pc[t] = "done"

\* C8: when a Factory.Create call fails, New has returned that error and no
\* Executor, the failed call was the last Create call, and Run never starts.
C8_CreateFailureAbortsNew ==
  newErr = "create" =>
    /\ newPc = "failed"
    /\ createCalls = newI + 1
    /\ Avail = newI
    /\ pc[Loop] = "idle"

\* C8 witness: the second of two Create calls failed.
C8_Witness ==
  newErr = "create" /\ workerCount = 2 /\ createCalls = 2

\* C9: when New returns an Executor, Create was called workerCount times, each
\* created worker was put once, and the pool holds all workerCount workers, none
\* borrowed.
C9_NewPopulatesPool ==
  (newPc = "returned" /\ pc[Loop] = "idle") =>
    /\ createCalls = workerCount
    /\ \A x \in DOMAIN putCalls : putCalls[x] = IF x \in Workers THEN 1 ELSE 0
    /\ workerPool = Workers
    /\ Avail = workerCount
    /\ Borrowers = {}
    /\ newErr = "nil"

\* C9 witness: New returned an Executor with two workers.
C9_Witness ==
  newPc = "returned" /\ workerCount = 2 /\ pc[Loop] = "idle"

\* C10, as stated: when the dispatch goroutine's Teardown, entered with no
\* execution ever spawned and with no failure, reaches Pool.Teardown, the pool is
\* empty and every worker that was available has been destroyed exactly once.
C10_TeardownDrainsAll ==
  (pc[Loop] = "tdPool" /\ spawned = 0 /\ ~faulted) =>
    /\ workerPool = {}
    /\ \A x \in tdAvail : destroyCalls[x] = 1

\* Goroutine t's deferred function has made its Put.
PutDone(t) == pc[t] \notin {"idle", "exec", "sendErr", "sendOut", "put"}

\* C11, as stated: once the deferred function of an execution has made its Put,
\* its worker was either returned to the pool or destroyed by Teardown: one of
\* the two, not both and not neither.
C11_ReturnedOrDestroyed ==
  \A t \in Tasks :
    PutDone(t) =>
      ((pc[t] = "done") # (w[t] # NoWorker /\ destroyCalls[w[t]] > 0))

\* The last message the dispatch goroutine received.
LastReceived == received[Len(received)]

\* C12, as stated: every message value the dispatch loop received from the open
\* input stream is given a worker and an execution, and the loop is in Teardown
\* or past it without a cancellation error only after it saw the stream closed.
C12_InputBranch ==
  workerCount >= 1 =>
    /\ \A i \in 1..Len(received) :
         received[i] # ZeroMsg =>
           \/ pc[Loop] = "get" /\ msg[Loop] = received[i]
           \/ ExecuteCalls(received[i]) = 1
    /\ ((LoopInTeardown \/ LoopEnded) /\ errorChannel[CtxErr] = 0) =>
         (inputClosed /\ received # <<>> /\ LastReceived = ZeroMsg)

\* The lifecycle stage of the Executor: Created, Running, Draining, Terminated.
Stage ==
  CASE pc[Loop] = "idle" -> 0
    [] pc[Loop] \in {"select", "get", "sendCtxErr"} -> 1
    [] LoopInTeardown -> 2
    [] OTHER -> 3

\* C13: the lifecycle never moves backwards; from the moment the dispatch loop is
\* in Teardown it reads no message and spawns no execution, and once it has ended
\* it stays as it ended.
C13_LifecycleForward ==
  [][/\ Stage' >= Stage
     /\ Stage >= 2 => (received' = received /\ spawned' = spawned)
     /\ Stage = 3 => pc'[Loop] = pc[Loop]]_vars

\* C13 witness: the dispatch loop has ended while a message is still waiting on
\* the input stream and a worker is still in the pool.
C13_Witness ==
  pc[Loop] = "done" /\ inputChannel # <<>> /\ workerPool # {}

\* C14: the dispatch goroutine leaves the send of the cancellation error only by
\* the write itself, and goes from there into Teardown; while it waits in the send
\* nothing of Teardown has happened; and it returns only from a returned Teardown.
C14_CancelOrder ==
  [][/\ (pc[Loop] = "sendCtxErr" /\ pc'[Loop] # "sendCtxErr") =>
          /\ errorChannel'[CtxErr] = errorChannel[CtxErr] + 1
          /\ pc'[Loop] = "tdCheck"
          /\ tdI'[Loop] = 0
     /\ pc[Loop] = "sendCtxErr" =>
          /\ errorChannel[CtxErr] = 0
          /\ poolTeardownCalls = 0
          /\ \A x \in DOMAIN destroyCalls : destroyCalls[x] = 0
     /\ (pc[Loop] # "done" /\ pc'[Loop] = "done") =>
          (pc[Loop] = "tdRet" /\ tdPoolCalls[Loop] = 1)]_vars

\* C14 witness: the loop returned on the cancellation branch: the cancellation
\* error was written and Teardown ran to its end.
C14_Witness ==
  pc[Loop] = "done" /\ errorChannel[CtxErr] = 1 /\ tdPoolCalls[Loop] = 1

C17_NoRollback ==
  newErr = "create" =>
    /\ \A x \in DOMAIN destroyCalls : destroyCalls[x] = 0
    /\ workerPool = 1..(createCalls - 1)
    /\ \A x \in workerPool : putCalls[x] = 1

\* C17 witness: the second Create failed; the first worker is in the pool,
\* undestroyed.
C17_Witness ==
  newErr = "create" /\ workerPool = {1} /\ destroyCalls[1] = 0

\* The real messages the dispatch loop has read, in the order it read them.
RealReceived == SelectSeq(received, LAMBDA m : m # ZeroMsg)

\* The goroutine is inside a Teardown call (or past it).
InTeardown(t) == pc[t] \in {"tdCheck", "tdGet", "tdDestroy", "tdPool", "tdRet", "panic"}

C19_LoopTeardownGetFinds ==
  /\ pc[Loop] = "tdGet" => CanGet
  /\ pc[Loop] \in {"tdCheck", "tdGet", "tdDestroy"} =>
       \A t \in Tasks : ~InTeardown(t)

\* C19 witness: the loop's Teardown is at its Get while an execution is in flight.
C19_Witness ==
  pc[Loop] = "tdGet" /\ \E t \in Tasks : InFlight(t)

\* C20: when no Factory or Pool operation has failed, no execution is in flight
\* once the dispatch loop's Teardown has called Pool.Teardown, and no execution
\* is on the fatal path of a refused Put.
C20_NoPutAfterPoolTeardown ==
  (workerCount >= 1 /\ ~faulted) =>
    /\ tdPoolCalls[Loop] > 0 => \A t \in Tasks : ~InFlight(t)
    /\ \A t \in Tasks : ~InTeardown(t)

====
